---- MODULE Spec2Model ----
(***************************************************************************)
(* Model of drw.c: the UTF-8 decoder, the bounded font cache and the text  *)
(* fitter drw_text with its on-demand fallback-font acquisition.           *)
(***************************************************************************)
EXTENDS Integers, Sequences, FiniteSets, TLC

(***************************************************************************)
(* Bit operations on non-negative integers (C's & and |).                  *)
(***************************************************************************)
RECURSIVE BitAnd(_, _)
BitAnd(a, b) ==
  IF a = 0 \/ b = 0 THEN 0
  ELSE (a % 2) * (b % 2) + 2 * BitAnd(a \div 2, b \div 2)

RECURSIVE BitOr(_, _)
BitOr(a, b) ==
  IF a = 0 THEN b
  ELSE IF b = 0 THEN a
  ELSE (IF a % 2 = 1 \/ b % 2 = 1 THEN 1 ELSE 0) + 2 * BitOr(a \div 2, b \div 2)

BETWEEN(x, a, b) == a <= x /\ x <= b

(***************************************************************************)
(* The UTF-8 codec.                                                        *)
(***************************************************************************)
UTF_INVALID == 65533

UTF_SIZ == 4

utfbyte == [i \in 0..UTF_SIZ |->
  IF i = 0 THEN 128 ELSE IF i = 1 THEN 0 ELSE IF i = 2 THEN 192
  ELSE IF i = 3 THEN 224 ELSE 240]

utfmask == [i \in 0..UTF_SIZ |->
  IF i = 0 THEN 192 ELSE IF i = 1 THEN 128 ELSE IF i = 2 THEN 224
  ELSE IF i = 3 THEN 240 ELSE 248]

utfmin_overlong == [i \in 0..UTF_SIZ |-> 0]

utfmin == [i \in 0..UTF_SIZ |->
  IF i = 0 THEN 0 ELSE IF i = 1 THEN 0 ELSE IF i = 2 THEN 128
  ELSE IF i = 3 THEN 2048 ELSE 65536]

utfmax_bmp == [i \in 0..UTF_SIZ |->
  IF i = 0 THEN 1114111 ELSE IF i = 1 THEN 127 ELSE IF i = 2 THEN 2047
  ELSE 65535]

utfmax == [i \in 0..UTF_SIZ |->
  IF i = 0 THEN 1114111 ELSE IF i = 1 THEN 127 ELSE IF i = 2 THEN 2047
  ELSE IF i = 3 THEN 65535 ELSE 1114111]

\* utf8decodebyte: the payload bits of byte c and, in i, the class of c:
\* 0 a continuation byte, 1..4 a lead byte of that length, 5 no class.
RECURSIVE utf8decodebyte_from(_, _)
utf8decodebyte_from(c, i) ==
  IF i >= UTF_SIZ + 1 THEN [val |-> 0, i |-> i]
  ELSE IF BitAnd(c, utfmask[i]) = utfbyte[i]
       THEN [val |-> BitAnd(c, 255 - utfmask[i]), i |-> i]
       ELSE utf8decodebyte_from(c, i + 1)

utf8decodebyte(c) == utf8decodebyte_from(c, 0)

\* utf8validate: u replaced by UTF_INVALID when out of the range of its
\* encoded length i or a surrogate; the returned i is the shortest length.
RECURSIVE utf8validate_len(_, _)
utf8validate_len(u, i) ==
  IF u > utfmax[i] THEN utf8validate_len(u, i + 1) ELSE i

utf8validate(u, i) ==
  LET v == IF ~BETWEEN(u, utfmin[i], utfmax[i]) \/ BETWEEN(u, 55296, 57343)
           THEN UTF_INVALID ELSE u
  IN [u |-> v, i |-> utf8validate_len(v, 1)]

\* Variant of the continuation loop: the byte that is no continuation byte
\* is counted in the return.
RECURSIVE utf8decode_loop_count(_, _, _, _, _)
utf8decode_loop_count(c, clen, len, j, udecoded) ==
  IF j < clen /\ j < len
  THEN IF utf8decodebyte(c[j + 1]).i # 0
       THEN [j |-> j, udecoded |-> udecoded, ret |-> j + 1]
       ELSE utf8decode_loop_count(c, clen, len, j + 1,
                                  BitOr(udecoded * 64,
                                        utf8decodebyte(c[j + 1]).val))
  ELSE [j |-> j, udecoded |-> udecoded, ret |-> 0 - 1]

\* The continuation loop of utf8decode (i = j throughout, one index is kept).
\* c is the byte sequence, c[k + 1] being the C expression c[k].
\* "ret" is the return from inside the loop, 0 - 1 when there is none.
RECURSIVE utf8decode_loop(_, _, _, _, _)
utf8decode_loop(c, clen, len, j, udecoded) ==
  IF j < clen /\ j < len
  THEN IF utf8decodebyte(c[j + 1]).i # 0
       THEN [j |-> j, udecoded |-> udecoded, ret |-> j]
       ELSE utf8decode_loop(c, clen, len, j + 1,
                            BitOr(udecoded * 64, utf8decodebyte(c[j + 1]).val))
  ELSE [j |-> j, udecoded |-> udecoded, ret |-> 0 - 1]

utf8decode_nowait(c, clen) ==
  IF clen = 0 THEN [u |-> UTF_INVALID, ret |-> 0]
  ELSE LET lead == utf8decodebyte(c[1])
           len == lead.i
       IN IF ~BETWEEN(len, 1, UTF_SIZ) THEN [u |-> UTF_INVALID, ret |-> 1]
          ELSE LET l == utf8decode_loop(c, clen, len, 1, lead.val)
               IN IF l.ret # 0 - 1 THEN [u |-> UTF_INVALID, ret |-> l.ret]
                  ELSE [u |-> utf8validate(l.udecoded, len).u, ret |-> len]

utf8decode(c, clen) ==
  IF clen = 0 THEN [u |-> UTF_INVALID, ret |-> 0]
  ELSE LET lead == utf8decodebyte(c[1])
           len == lead.i
       IN IF ~BETWEEN(len, 1, UTF_SIZ) THEN [u |-> UTF_INVALID, ret |-> 1]
          ELSE LET l == utf8decode_loop(c, clen, len, 1, lead.val)
               IN IF l.ret # 0 - 1 THEN [u |-> UTF_INVALID, ret |-> l.ret]
                  ELSE IF l.j < len THEN [u |-> UTF_INVALID, ret |-> 0]
                  ELSE [u |-> utf8validate(l.udecoded, len).u, ret |-> len]

(***************************************************************************)
(* Bounds of the model.                                                    *)
(***************************************************************************)
\* Capacity of drw->fonts (drw.h).
DRW_FONT_CACHE_SIZE == 3

\* Longest text, in bytes before the terminator, handed to drw_text.
MaxTextLen == 2

\* Longest batch handed to drw_load_fonts.
MaxBatch == 2

\* Most characters of a well-formed text handed to drw_text when the fitting
\* of runs is looked at, and the widest width budget given with it.
MaxFitChars == 5

MaxFitWidth == 5

(***************************************************************************)
(* The environment: bytes, texts, the fonts of the system.                 *)
(***************************************************************************)
\* Bytes of the texts drawn: 'A', the two bytes of U+00E9 (0xC3 0xA9), which
\* alone or out of order are malformed input, and the lead byte of a
\* three-byte sequence (0xE2), which the terminator always cuts short here.
TextBytes == {65, 195, 169, 226}

NULL == <<>>

\* NUL-terminated texts.
Texts == UNION {{t \o <<0>> : t \in [1..n -> TextBytes]} : n \in 0..MaxTextLen}

\* Bytes of the buffers handed to a stand-alone utf8decode call: every class
\* of lead byte, the edges of the continuation range, and the bytes of the
\* shortest and longest sequence of each length.
DecodeBytes ==
  {0, 65, 127, 128, 130, 143, 144, 160, 172, 191, 192, 194, 224, 226, 237,
   240, 244, 248}

\* The buffers: clen bytes, clen from 0 to UTF_SIZ as in drw_text's call.
DecodeInputs == UNION {[1..n -> DecodeBytes] : n \in 0..UTF_SIZ}

\* What XftFontOpenName and FcNameParse give for a font name: a font with its
\* glyph coverage, height and advance per glyph, or nothing.
\* pattern: the font carries the pattern FcNameParse made of its name.
Fnt(cov, pattern, h, adv) ==
  [cov |-> cov, pattern |-> pattern, h |-> h, adv |-> adv]

NoFont == [ok |-> FALSE]

OpenName(fontname) ==
  IF fontname = "latin"
  THEN [ok |-> TRUE, font |-> Fnt({65}, TRUE, 1, 1)]
  ELSE IF fontname = "sym"
  THEN [ok |-> TRUE, font |-> Fnt({233}, TRUE, 1, 2)]
  ELSE NoFont

\* A font specification: a name, or the null pointer.
FontSpecs == {"latin", "sym", "bad", "null"}

Batches == UNION {[1..n -> FontSpecs] : n \in 0..MaxBatch}

\* What XftFontMatch and XftFontOpenPattern give for a codepoint: no match,
\* a match that fails to open, or a font of some coverage (which need not
\* contain the codepoint asked for).  Such a font has no pattern.
MatchOutcomes ==
  {[kind |-> "none"], [kind |-> "openfail"]} \cup
  {[kind |-> "font", cov |-> cv] : cv \in {{233}, {65533}}}

\* unsigned int and size_t wrap around; the model keeps the wrap-around at a
\* word of 30 bits, the widest the checker's integers leave room for.
UINT == 2 ^ 30

SIZE_T == 2 ^ 30

\* sizeof buf in drw_text.
BUFSIZ == 1024

(***************************************************************************)
(* State.                                                                  *)
(***************************************************************************)
VARIABLES
  fonts,         \* drw->fonts[0 .. fontcount-1], fonts[1] being cache[0]
  scheme,        \* drw->scheme is set
  pc,            \* "idle", "dead", or the position in drw_text
  text,          \* the text of the running drw_text call, terminator included
  tp,            \* offset of the text pointer in text
  utf8str,       \* offset of the start of the run
  utf8strlen,    \* bytes of the run
  curfont,       \* index in fonts of the current font
  nextfont,      \* index in fonts of the font to switch to, 0 when NULL
  charexists,
  utf8codepoint,
  x, w, render,
  buf,           \* the bytes of buf up to its terminator
  ew,
  ret,           \* value returned by the last drw_text call, 0 during one
  arg,           \* x, y, w, h as the running drw_text call was given them
  ev,            \* what the last step did
  look,          \* the failed lookup of the character at offset look.tp
  dec_c,         \* utf8decode called alone: the buffer (clen = its length)
  dec_u,         \* the codepoint it stored
  dec_ret,       \* the count it returned
  dec_pc

drwvars == <<fonts, scheme>>
txtvars == <<text, tp, utf8str, utf8strlen, curfont, nextfont, charexists,
             utf8codepoint, x, w, render, buf, ew, ret, arg>>
decvars == <<dec_c, dec_u, dec_ret, dec_pc>>
vars == <<drwvars, pc, txtvars, ev, look, decvars>>

fontcount == Len(fonts)

\* ev: the operation of the last step, the codepoint and the font index it
\* was about, its outcome, and a byte count.
Ev(op, cp, font, res, n) ==
  [op |-> op, cp |-> cp, font |-> font, res |-> res, n |-> n]

\* look: for the character at offset tp whose lookup failed, the font that
\* was current at its first failure, what the last fallback step did about
\* it ("full", "none", "openfail", "lie", "hit") and the index of the font
\* appended for it, 0 when none.
NoLook == [tp |-> 0 - 1, font |-> 0, res |-> "", new |-> 0]

XftCharExists(font, cp) == cp \in font.cov

NoArg == [x |-> 0, y |-> 0, w |-> 0, h |-> 0]

InitDrw ==
  /\ fonts = <<>>
  /\ scheme = FALSE
  /\ pc = "idle"
  /\ text = NULL /\ tp = 0 /\ utf8str = 0 /\ utf8strlen = 0
  /\ curfont = 0 /\ nextfont = 0 /\ charexists = FALSE /\ utf8codepoint = 0
  /\ x = 0 /\ w = 0 /\ render = FALSE /\ buf = <<>> /\ ew = 0
  /\ ret = 0 /\ arg = NoArg
  /\ ev = Ev("create", 0, 0, "", 0)
  /\ look = NoLook

\* drw_create.
Init ==
  /\ InitDrw
  /\ dec_c = <<>> /\ dec_u = 0 /\ dec_ret = 0 /\ dec_pc = "off"

(***************************************************************************)
(* utf8decode called on its own.                                           *)
(***************************************************************************)
InitDecode ==
  /\ InitDrw
  /\ dec_c \in DecodeInputs
  /\ dec_u = 0 /\ dec_ret = 0 /\ dec_pc = "call"

Decode ==
  /\ dec_pc = "call"
  /\ \E r \in {utf8decode(dec_c, Len(dec_c))} :
       dec_u' = r.u /\ dec_ret' = r.ret
  /\ dec_pc' = "done"
  /\ UNCHANGED <<dec_c, drwvars, pc, txtvars, ev, look>>

NextDecode == Decode

SpecDecode == InitDecode /\ [][NextDecode]_vars

(***************************************************************************)
(* The font cache.                                                         *)
(***************************************************************************)
\* drw_font_xcreate(drw, fontname, NULL): die for the null name, else the
\* font opened from the name, or no font.
drw_font_xcreate(fontname) ==
  IF fontname = "null" THEN [die |-> TRUE, ok |-> FALSE]
  ELSE LET o == OpenName(fontname)
       IN IF o.ok THEN [die |-> FALSE, ok |-> TRUE, font |-> o.font]
          ELSE [die |-> FALSE, ok |-> FALSE]

\* Variant: the font opened from a matched pattern keeps that pattern.
drw_font_xcreate_pattern_kept(m) ==
  IF m.kind = "font" THEN [ok |-> TRUE, font |-> Fnt(m.cov, TRUE, 1, 1)]
  ELSE [ok |-> FALSE]

\* drw_font_xcreate(drw, NULL, match): the font opened from a matched pattern
\* carries no pattern of its own.
drw_font_xcreate_pattern(m) ==
  IF m.kind = "font" THEN [ok |-> TRUE, font |-> Fnt(m.cov, FALSE, 1, 1)]
  ELSE [ok |-> FALSE]

CacheFull_off(fs) == Len(fs) > DRW_FONT_CACHE_SIZE

\* The capacity test before an append (lines 156 and 320).
CacheFull(fs) == Len(fs) >= DRW_FONT_CACHE_SIZE

\* Variant of the loop of drw_load_fonts: a name that fails to open ends
\* the loading.
RECURSIVE drw_load_fonts_stop(_, _, _)
drw_load_fonts_stop(fs, specs, i) ==
  IF i > Len(specs) THEN [fonts |-> fs, dead |-> ""]
  ELSE IF CacheFull(fs) THEN [fonts |-> fs, dead |-> "exhausted"]
  ELSE LET r == drw_font_xcreate(specs[i])
       IN IF r.die THEN [fonts |-> fs, dead |-> "nofont"]
          ELSE IF r.ok
          THEN drw_load_fonts_stop(Append(fs, r.font), specs, i + 1)
          ELSE [fonts |-> fs, dead |-> ""]

\* The loop of drw_load_fonts from the i-th specification on: the cache it
\* leaves, and the die it ended in ("" when it returned).
RECURSIVE drw_load_fonts(_, _, _)
drw_load_fonts(fs, specs, i) ==
  IF i > Len(specs) THEN [fonts |-> fs, dead |-> ""]
  ELSE IF CacheFull(fs) THEN [fonts |-> fs, dead |-> "exhausted"]
  ELSE LET r == drw_font_xcreate(specs[i])
       IN IF r.die THEN [fonts |-> fs, dead |-> "nofont"]
          ELSE IF r.ok THEN drw_load_fonts(Append(fs, r.font), specs, i + 1)
          ELSE drw_load_fonts(fs, specs, i + 1)

Idle == pc = "idle"

LoadFonts(specs) ==
  /\ Idle
  /\ LET r == drw_load_fonts(fonts, specs, 1)
     IN /\ fonts' = r.fonts
        /\ pc' = IF r.dead # "" THEN "dead" ELSE pc
        /\ ev' = [op |-> "load", specs |-> specs,
                  res |-> IF r.dead # "" THEN r.dead ELSE "ok"]
  /\ UNCHANGED <<scheme, txtvars, look, decvars>>

\* Variant of drw_font_create: the null name gives no font and no die.
drw_font_create_quiet(fontname) ==
  IF fontname = "null" THEN [die |-> FALSE, ok |-> FALSE]
  ELSE drw_font_xcreate(fontname)

\* drw_font_create: the font is the caller's, the cache is not touched.
drw_font_create(fontname) == drw_font_xcreate(fontname)

FontCreate(fontname) ==
  /\ Idle
  /\ LET r == drw_font_create(fontname)
     IN /\ pc' = IF r.die THEN "dead" ELSE pc
        /\ ev' = [op |-> "fontcreate", specs |-> <<fontname>>,
                  res |-> IF r.die THEN "nofont"
                          ELSE IF r.ok THEN "ok" ELSE "null"]
  /\ UNCHANGED <<drwvars, txtvars, look, decvars>>

SetScheme ==
  /\ Idle
  /\ scheme' = TRUE
  /\ ev' = Ev("scheme", 0, 0, "", 0)
  /\ UNCHANGED <<fonts, pc, txtvars, look, decvars>>

(***************************************************************************)
(* drw_text.                                                               *)
(***************************************************************************)
\* XftTextExtentsUtf8 through drw_font_getexts: the advance of the len bytes
\* of t from offset start, one glyph for every byte that starts a character.
GlyphCount(t, start, len) ==
  Cardinality({k \in (start + 1)..(start + len) : ~BETWEEN(t[k], 128, 191)})

drw_font_getexts(font, t, start, len) == font.adv * GlyphCount(t, start, len)

\* Variants of the for loop of line 265: charexists ignored; no break at the
\* first font found; a set charexists taking the last font; only fonts[0]
\* looked at.
RECURSIVE ScanFonts_noforce(_, _, _, _)
ScanFonts_noforce(fs, cp, ce, i) ==
  IF i > Len(fs) THEN 0
  ELSE IF XftCharExists(fs[i], cp) THEN i
  ELSE ScanFonts_noforce(fs, cp, ce, i + 1)

ScanFonts_last(fs, cp, ce, i) ==
  LET hits == {k \in i..Len(fs) : ce \/ XftCharExists(fs[k], cp)}
  IN IF hits = {} THEN 0
     ELSE IF ce THEN i
     ELSE CHOOSE k \in hits : \A m \in hits : m <= k

ScanFonts_forcelast(fs, cp, ce, i) ==
  IF ce THEN Len(fs) ELSE ScanFonts_noforce(fs, cp, ce, i)

ScanFonts_primary(fs, cp, ce, i) ==
  IF Len(fs) >= 1 /\ (ce \/ XftCharExists(fs[1], cp)) THEN 1 ELSE 0

\* The for loop of line 265: the index of the first font taken, 0 when none.
\* With charexists already set the first font is taken unseen.
RECURSIVE ScanFonts(_, _, _, _)
ScanFonts(fs, cp, ce, i) ==
  IF i > Len(fs) THEN 0
  ELSE IF ce \/ XftCharExists(fs[i], cp) THEN i
  ELSE ScanFonts(fs, cp, ce, i + 1)

\* Variant of the shortening loop: the test w < fonts[0]->h left out.
RECURSIVE Shorten_nomargin(_, _, _, _, _, _, _)
Shorten_nomargin(font, t, start, len, e, wd, h0) ==
  IF len # 0 /\ e > (wd - h0) % UINT
  THEN Shorten_nomargin(font, t, start, len - 1,
                        drw_font_getexts(font, t, start, len), wd, h0)
  ELSE [len |-> len, ew |-> e]

\* Variant of the shortening loop: the width is held against w, not against
\* w - fonts[0]->h.
RECURSIVE Shorten_noheight(_, _, _, _, _, _, _)
Shorten_noheight(font, t, start, len, e, wd, h0) ==
  IF len # 0 /\ e > wd
  THEN Shorten_noheight(font, t, start, len - 1,
                        drw_font_getexts(font, t, start, len), wd, h0)
  ELSE [len |-> len, ew |-> e]

\* The shortening loop of line 288: each pass measures len bytes, then drops
\* one.
RECURSIVE Shorten(_, _, _, _, _, _, _)
Shorten(font, t, start, len, e, wd, h0) ==
  IF len # 0 /\ (e > (wd - h0) % UINT \/ wd < h0)
  THEN Shorten(font, t, start, len - 1, drw_font_getexts(font, t, start, len),
               wd, h0)
  ELSE [len |-> len, ew |-> e]

\* The ellipsis loop of line 295, i and len being size_t.
RECURSIVE Dots(_, _, _)
Dots(b, i, len) ==
  IF i # 0 /\ i > (len - 3) % SIZE_T
  THEN Dots([b EXCEPT ![i] = 46], i - 1, len)
  ELSE b

MIN(a, b) == IF a < b THEN a ELSE b

Geoms == {[x |-> 0, y |-> 0, w |-> 0, h |-> 0],
          [x |-> 0, y |-> 0, w |-> 3, h |-> 1]}

\* Lines 260-262, the head of the outer loop, for the text pointer at p.
OuterHead(p) ==
  /\ utf8strlen' = 0
  /\ utf8str' = p
  /\ nextfont' = 0

\* Variant of lines 239-241: w is left as passed in measure-only mode too.
Budget_same(rnd, gw) == gw

\* Lines 239-241: with x, y, w and h all zero, w = ~w.
Budget(rnd, gw) == IF rnd THEN gw ELSE UINT - 1 - gw

\* Lines 239-258.  A call that returns at once leaves no locals behind.
DrwText(t, g) ==
  /\ Idle
  /\ IF ~scheme \/ t = NULL \/ fontcount = 0
     THEN /\ pc' = "idle" /\ ret' = 0
          /\ ev' = Ev("call", 0, 0, "return", 0)
          /\ UNCHANGED <<text, tp, utf8str, utf8strlen, curfont, nextfont,
                         charexists, utf8codepoint, x, w, render, buf, ew,
                         arg>>
     ELSE /\ LET rnd == g.x # 0 \/ g.y # 0 \/ g.w # 0 \/ g.h # 0
             IN /\ render' = rnd
                /\ w' = Budget(rnd, g.w)
          /\ text' = t /\ tp' = 0 /\ x' = g.x /\ arg' = g
          /\ charexists' = FALSE /\ utf8codepoint' = 0
          /\ buf' = <<>> /\ ew' = 0
          /\ OuterHead(0)
          /\ pc' = "scan" /\ ret' = 0 /\ curfont' = 1
          /\ ev' = Ev("call", 0, 1, "", 0)
  /\ look' = NoLook
  /\ UNCHANGED <<drwvars, decvars>>

\* One pass of the inner loop, lines 263-283.
Scan ==
  /\ pc = "scan"
  /\ IF text[tp + 1] = 0
     THEN /\ pc' = "run"
          /\ ev' = Ev("scanend", 0, curfont, "", 0)
          /\ UNCHANGED <<tp, utf8strlen, nextfont, charexists, utf8codepoint>>
     ELSE \E d \in {utf8decode(SubSeq(text, tp + 1, Len(text)), UTF_SIZ)} :
          LET k == ScanFonts(fonts, d.u, charexists, 1)
              ce == k # 0
              consume == ce /\ k = curfont
              nf == IF ce /\ k # curfont THEN k ELSE nextfont
              brk == ~ce \/ (nf # 0 /\ nf # curfont)
          IN /\ utf8codepoint' = d.u
             /\ utf8strlen' = IF consume THEN utf8strlen + d.ret ELSE utf8strlen
             /\ tp' = IF consume THEN tp + d.ret ELSE tp
             /\ nextfont' = nf
             /\ charexists' = IF brk THEN ce ELSE FALSE
             /\ pc' = IF brk THEN "run" ELSE "scan"
             /\ ev' = IF consume
                      THEN Ev("consume", d.u, curfont,
                              IF charexists THEN "forced" ELSE "found", d.ret)
                      ELSE IF ce THEN Ev("pend", d.u, k, "", d.ret)
                      ELSE Ev("miss", d.u, 0, "", d.ret)
  /\ UNCHANGED <<drwvars, text, utf8str, curfont, x, w, render, buf, ew, ret,
                 arg, look, decvars>>

\* Lines 285-307: the closed run is measured, shortened and emitted.
Run ==
  /\ pc = "run"
  /\ pc' = "next"
  /\ IF utf8strlen # 0
     THEN LET font == fonts[curfont]
              e0 == drw_font_getexts(font, text, utf8str, utf8strlen)
              s == Shorten(font, text, utf8str, MIN(utf8strlen, BUFSIZ - 1),
                           e0, w, fonts[1].h)
          IN /\ ew' = s.ew
             /\ IF s.len # 0
                THEN /\ buf' = LET b == SubSeq(text, utf8str + 1,
                                               utf8str + s.len)
                               IN IF s.len < utf8strlen
                                  THEN Dots(b, s.len, s.len) ELSE b
                     /\ x' = x + s.ew
                     /\ w' = (w - s.ew) % UINT
                     /\ ev' = Ev("run", 0, curfont,
                                 IF s.len < utf8strlen THEN "short"
                                 ELSE "whole", s.len)
                ELSE /\ UNCHANGED <<buf, x, w>>
                     /\ ev' = Ev("norun", 0, curfont, "short", 0)
     ELSE /\ UNCHANGED <<buf, x, w, ew>>
          /\ ev' = Ev("norun", 0, curfont, "empty", 0)
  /\ UNCHANGED <<drwvars, text, tp, utf8str, utf8strlen, curfont, nextfont,
                 charexists, utf8codepoint, render, ret, arg, look, decvars>>

\* Lines 309-310 and 359-363: x is returned and the locals are gone.
TextEnd ==
  /\ pc = "next"
  /\ text[tp + 1] = 0
  /\ pc' = "idle"
  /\ ret' = x
  /\ ev' = Ev("end", 0, curfont, "", tp)
  /\ text' = NULL /\ tp' = 0 /\ utf8str' = 0 /\ utf8strlen' = 0
  /\ curfont' = 0 /\ nextfont' = 0 /\ charexists' = FALSE
  /\ utf8codepoint' = 0
  /\ x' = 0 /\ w' = 0 /\ render' = FALSE /\ buf' = <<>> /\ ew' = 0
  /\ arg' = NoArg
  /\ look' = NoLook
  /\ UNCHANGED <<drwvars, decvars>>

\* Lines 311-313.
SwitchFont ==
  /\ pc = "next"
  /\ text[tp + 1] # 0
  /\ nextfont # 0
  /\ charexists' = FALSE
  /\ curfont' = nextfont
  /\ OuterHead(tp)
  /\ pc' = "scan"
  /\ ev' = Ev("switch", utf8codepoint, nextfont, "", 0)
  /\ UNCHANGED <<drwvars, text, tp, utf8codepoint, x, w, render, buf, ew, ret,
                 arg, look, decvars>>

\* Variants of lines 345-355: the opened font appended without the glyph
\* test; the current font reset to fonts[0] also when nothing matched.
Acquire_keep(fs, cur, cp, m) ==
  IF m.kind = "none" THEN [fonts |-> fs, curfont |-> cur, res |-> "none"]
  ELSE LET f == drw_font_xcreate_pattern(m)
       IN IF f.ok
          THEN [fonts |-> Append(fs, f.font), curfont |-> Len(fs) + 1,
                res |-> IF XftCharExists(f.font, cp) THEN "hit" ELSE "lie"]
          ELSE [fonts |-> fs, curfont |-> 1, res |-> "openfail"]

Acquire_reset(fs, cur, cp, m) ==
  IF m.kind = "none" THEN [fonts |-> fs, curfont |-> 1, res |-> "none"]
  ELSE LET f == drw_font_xcreate_pattern(m)
       IN IF f.ok /\ XftCharExists(f.font, cp)
          THEN [fonts |-> Append(fs, f.font), curfont |-> Len(fs) + 1,
                res |-> "hit"]
          ELSE [fonts |-> fs, curfont |-> 1,
                res |-> IF f.ok THEN "lie" ELSE "openfail"]

\* Lines 345-355: the cache and the current font after the matcher gave m
\* for codepoint cp.
Acquire(fs, cur, cp, m) ==
  IF m.kind = "none" THEN [fonts |-> fs, curfont |-> cur, res |-> "none"]
  ELSE LET f == drw_font_xcreate_pattern(m)
       IN IF f.ok /\ XftCharExists(f.font, cp)
          THEN [fonts |-> Append(fs, f.font), curfont |-> Len(fs) + 1,
                res |-> "hit"]
          ELSE [fonts |-> fs, curfont |-> 1,
                res |-> IF f.ok THEN "lie" ELSE "openfail"]

Looked(res, new) ==
  [tp |-> tp, font |-> IF look.tp = tp THEN look.font ELSE curfont,
   res |-> res, new |-> new]

\* Lines 314-356: no font of the cache has the codepoint.
Fallback(m) ==
  /\ pc = "next"
  /\ text[tp + 1] # 0
  /\ nextfont = 0
  /\ charexists' = TRUE
  /\ OuterHead(tp)
  /\ IF CacheFull(fonts)
     THEN /\ pc' = "scan"
          /\ ev' = Ev("full", utf8codepoint, curfont, "", 0)
          /\ look' = Looked("full", 0)
          /\ UNCHANGED <<fonts, curfont>>
     ELSE IF ~fonts[1].pattern
     THEN /\ pc' = "dead"
          /\ ev' = Ev("die", utf8codepoint, curfont, "", 0)
          /\ look' = look
          /\ UNCHANGED <<fonts, curfont>>
     ELSE \E a \in {Acquire(fonts, curfont, utf8codepoint, m)} :
          /\ fonts' = a.fonts
          /\ curfont' = a.curfont
          /\ pc' = "scan"
          /\ ev' = Ev("match", utf8codepoint, a.curfont, a.res, 0)
          /\ look' = Looked(a.res, IF a.res = "hit" THEN a.curfont ELSE 0)
  /\ UNCHANGED <<scheme, text, tp, utf8codepoint, x, w, render, buf, ew, ret,
                 arg, decvars>>

Next ==
  \/ \E specs \in Batches : LoadFonts(specs)
  \/ \E fontname \in FontSpecs : FontCreate(fontname)
  \/ SetScheme
  \/ \E t \in Texts \cup {NULL}, g \in Geoms : DrwText(t, g)
  \/ Scan
  \/ Run
  \/ TextEnd
  \/ SwitchFont
  \/ \E m \in MatchOutcomes : Fallback(m)

Spec == Init /\ [][Next]_vars

(***************************************************************************)
(* The fitting of runs: drw_text on a Drw that drw_load_fonts has given    *)
(* the two named fonts, in either order, and drw_setscheme a scheme.  The  *)
(* texts are well formed and every character of them is in one of the two  *)
(* fonts, so no lookup fails and the cache stays as loaded.                *)
(***************************************************************************)
FitCaches ==
  {<<OpenName(a).font, OpenName(b).font>> :
     <<a, b>> \in {<<"latin", "sym">>, <<"sym", "latin">>}}

\* 'A' and U+00E9.
FitChars == {<<65>>, <<195, 169>>}

RECURSIVE FitTextsOf(_)
FitTextsOf(n) ==
  IF n = 0 THEN {<<>>}
  ELSE {c \o t : c \in FitChars, t \in FitTextsOf(n - 1)}

FitTexts == UNION {{t \o <<0>> : t \in FitTextsOf(n)} : n \in 0..MaxFitChars}

\* Measure-only, and render mode with every budget up to MaxFitWidth.
FitGeoms ==
  {NoArg} \cup
  {[x |-> gx, y |-> 0, w |-> gw, h |-> 1] :
     gx \in {0, 1}, gw \in 0..MaxFitWidth}

\* A run of n 'A's.
LongText(n) == [k \in 1..n |-> 65] \o <<0>>

\* The calls: every text with every geometry, and the runs that just fit and
\* just exceed buf, measured and rendered with room to spare.
FitCalls ==
  {[t |-> t, g |-> g] : t \in FitTexts, g \in FitGeoms} \cup
  {[t |-> LongText(n), g |-> g] :
     n \in {BUFSIZ - 1, BUFSIZ},
     g \in {NoArg, [x |-> 0, y |-> 0, w |-> 2 * BUFSIZ, h |-> 1]}}

InitFit ==
  /\ fonts \in FitCaches
  /\ scheme = TRUE
  /\ pc = "idle"
  /\ text = NULL /\ tp = 0 /\ utf8str = 0 /\ utf8strlen = 0
  /\ curfont = 0 /\ nextfont = 0 /\ charexists = FALSE /\ utf8codepoint = 0
  /\ x = 0 /\ w = 0 /\ render = FALSE /\ buf = <<>> /\ ew = 0
  /\ ret = 0 /\ arg = NoArg
  /\ ev = Ev("scheme", 0, 0, "", 0)
  /\ look = NoLook
  /\ dec_c = <<>> /\ dec_u = 0 /\ dec_ret = 0 /\ dec_pc = "off"

NextFit ==
  \/ \E c \in FitCalls : DrwText(c.t, c.g)
  \/ Scan
  \/ Run
  \/ TextEnd
  \/ SwitchFont

SpecFit == InitFit /\ [][NextFit]_vars

\* No lookup fails in these calls: the fallback branch is never entered.
FitNoFallback == ~(pc = "next" /\ text[tp + 1] # 0 /\ nextfont = 0)

TypeOK ==
  /\ fontcount <= DRW_FONT_CACHE_SIZE
  /\ pc \in {"idle", "scan", "run", "next", "dead"}

(***************************************************************************)
(* The font cache and the glyph resolver.                                  *)
(***************************************************************************)
Covered(cp) == \E i \in 1..fontcount : XftCharExists(fonts[i], cp)

\* The lowest index of a cache entry that has cp.
FirstCovering(cp) ==
  CHOOSE i \in 1..fontcount :
    /\ XftCharExists(fonts[i], cp)
    /\ \A k \in 1..(i - 1) : ~XftCharExists(fonts[k], cp)

\* The step consumed a character whose lookup had failed.
ConsumedLooked == ev.op = "consume" /\ look.tp = tp - ev.n

\* C1: fontcount never exceeds DRW_FONT_CACHE_SIZE, and a drw_text step that
\* finds the cache at capacity neither calls the matcher nor appends.
C1_CacheBounded ==
  /\ [](fontcount <= DRW_FONT_CACHE_SIZE)
  /\ [][(pc # "idle" /\ fontcount >= DRW_FONT_CACHE_SIZE)
        => (fonts' = fonts /\ ev'.op # "match")]_vars

C1_Witness ==
  /\ fontcount = DRW_FONT_CACHE_SIZE
  /\ ev.op = "full"
  /\ pc = "scan"

Running == pc \in {"scan", "run", "next"}

AtEnd == text[tp + 1] = 0

\* Steps a fallback step from current font cur leaves, at most, before the
\* character is consumed: none when fonts[0] is current and nothing is
\* appended, a switch to fonts[0] and a second failed lookup otherwise.
AfterFallback(cur) ==
  IF CacheFull(fonts) THEN (IF cur = 1 THEN 1 ELSE 7)
  ELSE (IF cur = 1 THEN 7 ELSE 13)

\* Steps from the head of the inner loop, at most, up to the step that
\* consumes the character there, cp being its codepoint.
RECURSIVE FromScan(_, _, _)
FromScan(cp, ce, cur) ==
  IF ce THEN (IF cur = 1 THEN 1 ELSE 3 + FromScan(cp, FALSE, 1))
  ELSE IF Covered(cp) THEN (IF FirstCovering(cp) = cur THEN 1 ELSE 4)
  ELSE 3 + AfterFallback(cur)

\* The character at the text pointer is yet to be decoded: the call has just
\* begun, or the character before it has just been consumed.
Fresh == pc = "scan" /\ ev.op \in {"call", "consume"}

\* No character takes more than PhaseMax - 1 steps.
PhaseMax == 20

\* Steps left, at most, for the character at the text pointer (for the
\* return, at the end of the text).  Once decoded, the character at the text
\* pointer is the one utf8codepoint holds.
Phase ==
  IF AtEnd THEN (IF pc = "scan" THEN 3 ELSE IF pc = "run" THEN 2 ELSE 1)
  ELSE IF Fresh THEN PhaseMax - 1
  ELSE IF pc = "scan" THEN FromScan(utf8codepoint, charexists, curfont)
  ELSE IF pc = "run"
  THEN (IF nextfont # 0 THEN 2 + FromScan(utf8codepoint, FALSE, nextfont)
        ELSE 2 + AfterFallback(curfont))
  ELSE IF pc = "next"
  THEN (IF nextfont # 0 THEN 1 + FromScan(utf8codepoint, FALSE, nextfont)
        ELSE 1 + AfterFallback(curfont))
  ELSE 0

\* A measure of the work a running call has left: the bytes before the
\* terminator weigh PhaseMax each.
Rank ==
  IF Running THEN PhaseMax * (Len(text) - 1 - tp) + Phase ELSE 0

\* C2: a running drw_text call has its text pointer and current font in
\* range, so its next step is defined; every step brings it closer to its
\* return (the text pointer advances within PhaseMax steps, or the call
\* returns), and it ends by returning x: drw_text terminates, whatever the
\* text, the cache and the matcher's answers.
C2_Terminates ==
  /\ [](Running => /\ tp < Len(text)
                   /\ curfont \in 1..fontcount
                   /\ nextfont \in 0..fontcount
                   /\ Phase < PhaseMax)
  /\ [][Running => /\ Rank' < Rank /\ Rank' >= 0
                   /\ pc' \in {"scan", "run", "next", "idle"}
                   /\ (pc' = "idle" => (ev'.op = "end" /\ ret' = x))]_vars

C2_Witness ==
  /\ pc = "idle"
  /\ ev.op = "end"
  /\ ev.n >= 2
  /\ fontcount = DRW_FONT_CACHE_SIZE

\* C3: a character consumed while some cache entry has its codepoint is
\* consumed with the lowest-index such entry as the current font.
C3_FirstCoveringFont ==
  (ev.op = "consume" /\ Covered(ev.cp)) =>
    (ev.font = FirstCovering(ev.cp) /\ curfont = ev.font)

C3_Witness ==
  /\ ev.op = "consume"
  /\ ev.font = 2
  /\ fontcount >= 3
  /\ XftCharExists(fonts[2], ev.cp)
  /\ XftCharExists(fonts[3], ev.cp)
  /\ ~XftCharExists(fonts[1], ev.cp)

\* C4 as claimed: the character whose lookup failed with the cache at
\* capacity is consumed in a run of the font that was current when the
\* lookup failed.
C4_ConsumedInFailureFont ==
  (ConsumedLooked /\ look.res = "full") => ev.font = look.font

\* C4 amended: the step that finds the cache at capacity leaves the current
\* font and the cache as they are, and the character is consumed in a run
\* of cache[0], whichever font was current when the lookup failed.
C4_ConsumedInPrimary ==
  /\ []((ConsumedLooked /\ look.res = "full")
        => (ev.font = 1 /\ ev.res = "forced" /\ ~Covered(ev.cp)))
  /\ [][ev'.op = "full"
        => (curfont' = curfont /\ fonts' = fonts /\ tp' = tp)]_vars

C4_Witness ==
  /\ ConsumedLooked
  /\ look.res = "full"
  /\ look.font # 1
  /\ ev.font = 1

\* C5: below capacity, a matched font that has the codepoint becomes the
\* new last cache entry (earlier entries unchanged) and the character is
\* consumed in a run of it; a matched font that lacks the codepoint leaves
\* the cache unchanged and the character is consumed in a run of cache[0].
C5_MatchedFont ==
  /\ [][/\ (ev'.op = "match" /\ ev'.res = "hit")
           => /\ Len(fonts') = Len(fonts) + 1
              /\ SubSeq(fonts', 1, Len(fonts)) = fonts
              /\ XftCharExists(fonts'[Len(fonts')], ev'.cp)
              /\ look'.new = Len(fonts')
        /\ (ev'.op = "match" /\ ev'.res = "lie") => fonts' = fonts]_vars
  /\ []((ConsumedLooked /\ look.res = "hit") => ev.font = look.new)
  /\ []((ConsumedLooked /\ look.res = "lie") => ev.font = 1)

C5_Witness ==
  /\ ConsumedLooked
  /\ look.res = "hit"
  /\ ev.font = fontcount
  /\ ~fonts[ev.font].pattern

\* C6 as claimed: when the matcher gives no font, the current font is
\* cache[0] right after that step and the cache is unchanged.
C6_NoMatchResetsFont ==
  [][(ev'.op = "match" /\ ev'.res = "none")
     => (curfont' = 1 /\ fonts' = fonts)]_vars

\* C6 amended: when the matcher gives no font, that step leaves the current
\* font and the cache unchanged (the current font is cache[0] after it only
\* if it was before); a character consumed after such a step is consumed in
\* a run of cache[0].
C6_NoMatchKeepsFont ==
  /\ [][(ev'.op = "match" /\ ev'.res = "none")
        => (curfont' = curfont /\ fonts' = fonts)]_vars
  /\ []((ConsumedLooked /\ look.res = "none") => ev.font = 1)

C6_Witness ==
  /\ ev.op = "match"
  /\ ev.res = "none"
  /\ curfont # 1
  /\ fontcount < DRW_FONT_CACHE_SIZE

\* C7: the matcher is called only for a codepoint no cache entry has, with
\* the cache below capacity; the cache only grows by such a call and keeps
\* its entries, so a codepoint a cached font has never reaches the matcher
\* again.
C7_MatcherOnlyForUncovered ==
  [][/\ ev'.op = "match"
        => (~Covered(ev'.cp) /\ fontcount < DRW_FONT_CACHE_SIZE)
     /\ (pc # "idle" /\ fonts' # fonts) => (ev'.op = "match" /\ ev'.res = "hit")
     /\ (Len(fonts') >= Len(fonts) /\ SubSeq(fonts', 1, Len(fonts)) = fonts)]_vars

C7_Witness ==
  /\ ev.op = "consume"
  /\ ev.res = "found"
  /\ ~fonts[ev.font].pattern
  /\ look = NoLook

(***************************************************************************)
(* UTF-8 as the standard defines it, to state the decoder's claims.        *)
(***************************************************************************)
IsCont(b) == b >= 128 /\ b <= 191

\* The length a lead byte announces, 0 for a byte that is no lead byte.
LeadLen(b) ==
  IF b < 128 THEN 1
  ELSE IF b >= 192 /\ b <= 223 THEN 2
  ELSE IF b >= 224 /\ b <= 239 THEN 3
  ELSE IF b >= 240 /\ b <= 247 THEN 4
  ELSE 0

\* The least value whose shortest encoding has n bytes.
MinFor(n) == IF n = 1 THEN 0 ELSE IF n = 2 THEN 128 ELSE IF n = 3 THEN 2048
             ELSE 65536

IsScalar(v) == v >= 0 /\ v <= 1114111 /\ ~(v >= 55296 /\ v <= 57343)

\* The shortest-form encoding of v.
utf8encode(v) ==
  IF v < 128 THEN <<v>>
  ELSE IF v < 2048 THEN <<192 + (v \div 64), 128 + (v % 64)>>
  ELSE IF v < 65536
  THEN <<224 + (v \div 4096), 128 + ((v \div 64) % 64), 128 + (v % 64)>>
  ELSE <<240 + (v \div 262144), 128 + ((v \div 4096) % 64),
         128 + ((v \div 64) % 64), 128 + (v % 64)>>

\* The value the first n bytes of c carry when they are a lead byte of
\* length n and n - 1 continuation bytes.
Assembled(c, n) ==
  IF n = 1 THEN c[1]
  ELSE IF n = 2 THEN (c[1] - 192) * 64 + (c[2] - 128)
  ELSE IF n = 3 THEN (c[1] - 224) * 4096 + (c[2] - 128) * 64 + (c[3] - 128)
  ELSE (c[1] - 240) * 262144 + (c[2] - 128) * 4096 + (c[3] - 128) * 64
       + (c[4] - 128)

WellFormed(c, n) ==
  /\ n >= 1 /\ n <= Len(c)
  /\ LeadLen(c[1]) = n
  /\ \A k \in 2..n : IsCont(c[k])

\* C8: for every scalar value v (0..0x10FFFF outside 0xD800..0xDFFF) whose
\* shortest-form encoding opens the buffer, clen being at least its length,
\* utf8decode stores v and returns the encoded length.
C8_DecodesShortestForm ==
  dec_pc = "done" =>
    \A n \in 1..Len(dec_c) :
      (WellFormed(dec_c, n)
       /\ IsScalar(Assembled(dec_c, n))
       /\ SubSeq(dec_c, 1, n) = utf8encode(Assembled(dec_c, n)))
      => (dec_u = Assembled(dec_c, n) /\ dec_ret = n)

C8_Witness ==
  /\ dec_pc = "done"
  /\ dec_c = <<226, 130, 172>>
  /\ dec_u = 8364
  /\ dec_ret = 3

\* C9: a lead byte of length n followed by n - 1 continuation bytes whose
\* value is overlong, above 0x10FFFF or a surrogate gives codepoint 0xFFFD
\* and still a consumed count of n.
C9_InvalidScalarReplaced ==
  dec_pc = "done" =>
    \A n \in 1..Len(dec_c) :
      (WellFormed(dec_c, n)
       /\ (\/ Assembled(dec_c, n) < MinFor(n)
           \/ Assembled(dec_c, n) > 1114111
           \/ (Assembled(dec_c, n) >= 55296 /\ Assembled(dec_c, n) <= 57343)))
      => (dec_u = 65533 /\ dec_ret = n)

C9_Witness ==
  /\ dec_pc = "done"
  /\ dec_c = <<237, 160, 128>>
  /\ dec_u = 65533
  /\ dec_ret = 3

\* C10: a lead byte of length n in 2..4 with clen in 1..n-1 and only
\* continuation bytes after it gives the consumed count 0, and no input
\* whose announced length fits in clen gives 0.
C10_NeedMoreInput ==
  dec_pc = "done" =>
    /\ (/\ Len(dec_c) >= 1
        /\ LeadLen(dec_c[1]) >= 2
        /\ Len(dec_c) < LeadLen(dec_c[1])
        /\ \A k \in 2..Len(dec_c) : IsCont(dec_c[k]))
       => (dec_ret = 0 /\ dec_ret < LeadLen(dec_c[1]))
    /\ (/\ Len(dec_c) >= 1
        /\ LeadLen(dec_c[1]) >= 1
        /\ Len(dec_c) >= LeadLen(dec_c[1]))
       => dec_ret # 0

C10_Witness ==
  /\ dec_pc = "done"
  /\ dec_c = <<226, 130>>
  /\ dec_ret = 0

(***************************************************************************)
(* The fitting of runs.                                                    *)
(***************************************************************************)
\* The bytes of the run just closed, and its measured width.
RunBytes == SubSeq(text, utf8str + 1, utf8str + utf8strlen)

RunWidth == drw_font_getexts(fonts[curfont], text, utf8str, utf8strlen)

\* The step before was the run fitter's, and it emitted a run.
Emitted == pc = "next" /\ ev.op = "run"

\* C11 as claimed: in measure-only mode every run is emitted whole (all of
\* its bytes in buf, none replaced by '.') and x advances by the measured
\* width of the full run.
C11_MeasureNeverShortens ==
  (Emitted /\ ~render) =>
    /\ ev.res = "whole"
    /\ ev.n = utf8strlen
    /\ buf = RunBytes
    /\ ew = RunWidth

\* C11 amended: in measure-only mode every non-empty run is emitted and x
\* advances by the measured width of the full run, whatever its length; a
\* run of at most sizeof buf - 1 bytes is emitted whole, and a longer one
\* is cut to sizeof buf - 1 bytes in buf.
C11_MeasureAdvancesFull ==
  /\ []((Emitted /\ ~render) =>
          /\ ew = RunWidth
          /\ utf8strlen <= BUFSIZ - 1
               => (ev.res = "whole" /\ ev.n = utf8strlen /\ buf = RunBytes)
          /\ utf8strlen > BUFSIZ - 1
               => (ev.res = "short" /\ ev.n = BUFSIZ - 1))
  /\ [][(pc = "run" /\ ~render) =>
          IF utf8strlen # 0
          THEN ev'.op = "run" /\ x' = x + RunWidth
          ELSE x' = x]_vars

C11_Witness ==
  /\ Emitted
  /\ ~render
  /\ ev.res = "whole"
  /\ utf8strlen = BUFSIZ - 1
  /\ x = BUFSIZ - 1

\* The width of the character that starts at offset k of the text.
CharWidthAt(k) ==
  fonts[FirstCovering(utf8decode(SubSeq(text, k + 1, Len(text)),
                                 UTF_SIZ).u)].adv

\* A call in render mode whose budget is smaller than the width of every
\* character of its text.
Narrow ==
  /\ Running
  /\ render
  /\ \A k \in 0..(Len(text) - 2) :
       ~BETWEEN(text[k + 1], 128, 191) => CharWidthAt(k) > arg.w

\* C12: a call in render mode whose budget is smaller than every character
\* emits no run: x and the budget stay as passed in, buf is never written
\* (so no '.' is), and the x passed in is returned.
C12_NarrowBudgetEmitsNothing ==
  /\ [](Narrow => /\ x = arg.x
                  /\ w = arg.w
                  /\ buf = <<>>
                  /\ ev.op # "run")
  /\ [][(Narrow /\ pc' = "idle") => ret' = arg.x]_vars

C12_Witness ==
  /\ Narrow
  /\ pc = "next"
  /\ ev.op = "norun"
  /\ ev.res = "short"
  /\ arg.w >= 1
  /\ arg.x >= 1
  /\ utf8strlen >= 4

\* The measured width of the first k bytes of the run.
PrefixWidth(k) == drw_font_getexts(fonts[curfont], text, utf8str, k)

\* The first k bytes of the run fit: their width is within the budget less
\* the height of fonts[0] (line 288).
FitsAt(k) ==
  ~(PrefixWidth(k) > (w - fonts[1].h) % UINT \/ w < fonts[1].h)

\* The longest prefix of the run that fits and that buf holds, 0 when none.
LongestFit ==
  LET ks == {k \in 1..MIN(utf8strlen, BUFSIZ - 1) : FitsAt(k)}
  IN IF ks = {} THEN 0 ELSE CHOOSE k \in ks : \A m \in ks : m <= k

\* C16 as claimed: a run wider than the budget less the height of fonts[0]
\* is kept at the longest prefix that fits, at 0 bytes only when none does.
C16_KeepsLongestFit ==
  [][(pc = "run" /\ utf8strlen # 0 /\ ~FitsAt(utf8strlen))
     => ev'.n = LongestFit]_vars

\* C17 as claimed: what an emitted run adds to x and takes from the budget
\* is the measured width of the bytes kept of it.
C17_AdvanceIsKeptWidth ==
  [][(pc = "run" /\ ev'.op = "run")
     => (/\ x' - x = PrefixWidth(ev'.n)
         /\ (w - w') % UINT = PrefixWidth(ev'.n))]_vars

\* min(3, len) dots at the end of the len bytes kept of the run.
Ellipsized(len) ==
  [k \in 1..len |-> IF k > len - MIN(3, len) THEN 46 ELSE text[utf8str + k]]

\* C18 as claimed: buf holds the bytes kept of a shortened run with the last
\* min(3, len) of them replaced by '.', and nothing after them.
C18_EllipsisUpToThree ==
  (Emitted /\ ev.res = "short") => buf = Ellipsized(ev.n)

\* C19: in a render-mode call given a budget of at least the height of
\* fonts[0], the budget is what was given less the advance of x and never
\* falls below that height (w -= ew does not wrap), so x advances by at most
\* the budget given less that height, and so does the x returned.
C19_BudgetNeverWraps ==
  /\ []((Running /\ render /\ arg.w >= fonts[1].h)
        => (/\ w >= fonts[1].h
            /\ w = arg.w - (x - arg.x)
            /\ x >= arg.x
            /\ x - arg.x <= arg.w - fonts[1].h))
  /\ [][(Running /\ render /\ arg.w >= fonts[1].h /\ pc' = "idle")
        => (ret' >= arg.x /\ ret' - arg.x <= arg.w - fonts[1].h)]_vars

C19_Witness ==
  /\ Emitted
  /\ render
  /\ ev.res = "short"
  /\ w = fonts[1].h
  /\ x - arg.x >= 3
  /\ text[tp + 1] # 0

(***************************************************************************)
(* Loading fonts, and the fatal conditions.                                *)
(***************************************************************************)
\* The fonts that the names of a batch open, in the order of the batch.
Opened(specs) ==
  LET good == SelectSeq(specs, LAMBDA n : OpenName(n).ok)
  IN [k \in 1..Len(good) |-> OpenName(good[k]).font]

Loaded == ev.op = "load"

\* C13: drw_load_fonts over a batch of names that fits in the remaining
\* capacity skips every name that fails to open and goes on with the rest:
\* afterwards the cache is the entries it had, unchanged, followed by the
\* fonts the batch opened, in input order, and the process runs on.
C13_LoadSkipsFailures ==
  [][(/\ Loaded'
      /\ \A k \in 1..Len(ev'.specs) : ev'.specs[k] # "null"
      /\ Len(ev'.specs) <= DRW_FONT_CACHE_SIZE - fontcount)
     => (/\ fonts' = fonts \o Opened(ev'.specs)
         /\ ev'.res = "ok"
         /\ pc' = "idle")]_vars

C13_Witness ==
  /\ Loaded
  /\ ev.specs = <<"bad", "sym">>
  /\ ev.res = "ok"
  /\ fontcount = 2
  /\ fonts[2] = OpenName("sym").font
  /\ fonts[1] = OpenName("latin").font

Dead == pc = "dead"

\* C14 as claimed: the process dies only of a null font name or of a
\* cache[0] without pattern; in particular a drw_load_fonts that comes to a
\* name with the cache at capacity leaves the process running.
C14_OnlyTwoFatalCases ==
  Dead => \/ ev.op \in {"load", "fontcreate"} /\ ev.res = "nofont"
          \/ ev.op = "die"

\* C14 amended: the process dies only of a null font name, of a cache[0]
\* without pattern, or of drw_load_fonts coming to a further name with the
\* cache at capacity; the entries of the cache are unchanged by a load that
\* dies so (the cache is then full), a null name at the head of a batch is
\* always fatal, and no step of drw_text at capacity is.
C14_ThreeFatalCases ==
  /\ [][Dead' =>
          \/ /\ ev'.op = "fontcreate" /\ ev'.specs = <<"null">>
             /\ fonts' = fonts
          \/ /\ Loaded' /\ ev'.res = "nofont"
             /\ \E k \in 1..Len(ev'.specs) : ev'.specs[k] = "null"
          \/ /\ Loaded' /\ ev'.res = "exhausted"
             /\ Len(ev'.specs) > DRW_FONT_CACHE_SIZE - fontcount
             /\ Len(fonts') = DRW_FONT_CACHE_SIZE
          \/ /\ ev'.op = "die"
             /\ ~fonts[1].pattern]_vars
  /\ [][(Loaded' \/ ev'.op = "fontcreate")
        => (/\ SubSeq(fonts', 1, Len(fonts)) = fonts
            /\ (ev'.specs # <<>> /\ ev'.specs[1] = "null") => Dead')]_vars
  /\ [][(Running /\ fontcount >= DRW_FONT_CACHE_SIZE) => ~Dead']_vars

C14_Witness ==
  /\ Dead
  /\ Loaded
  /\ ev.res = "exhausted"
  /\ ev.specs = <<"sym", "bad">>
  /\ fontcount = DRW_FONT_CACHE_SIZE

\* C15: cache[0], when there is one, carries a pattern; every entry that a
\* fallback acquisition appends carries none and is never cache[0]; and
\* drw_text never dies of cache[0] lacking its pattern.
C15_PrimaryHasPattern ==
  /\ [](fontcount >= 1 => fonts[1].pattern)
  /\ [](ev.op # "die")
  /\ [][(ev'.op = "match" /\ ev'.res = "hit")
        => (/\ Len(fonts') >= 2
            /\ ~fonts'[Len(fonts')].pattern
            /\ fonts[1].pattern)]_vars
  /\ [][Running => ~Dead']_vars

C15_Witness ==
  /\ ev.op = "match"
  /\ ev.res = "hit"
  /\ fontcount = 2
  /\ fonts[1].pattern
  /\ ~fonts[2].pattern

(***************************************************************************)
(* The decoder as drw_text calls it.                                       *)
(***************************************************************************)
\* The step was a pass of the inner loop that decoded a character.
Decoded == ev.op \in {"consume", "pend", "miss"}

\* C20: every utf8decode call of drw_text returns a count from 1 to
\* UTF_SIZ, and the bytes it counts lie before the terminator, none of them
\* NUL; so a consumed character moves the text pointer on by at least one
\* byte, and the pointer never passes the terminator.
C20_DecodeStopsAtTerminator ==
  /\ [](Running => (tp <= Len(text) - 1 /\ text[Len(text)] = 0))
  /\ [][(pc = "scan" /\ Decoded')
        => (/\ ev'.n >= 1 /\ ev'.n <= UTF_SIZ
            /\ tp + ev'.n <= Len(text) - 1
            /\ \A k \in (tp + 1)..(tp + ev'.n) : text[k] # 0
            /\ tp' = IF ev'.op = "consume" THEN tp + ev'.n ELSE tp)]_vars

C20_Witness ==
  /\ ev.op = "consume"
  /\ ev.n = 2
  /\ ev.cp = UTF_INVALID
  /\ text = <<226, 169, 0>>
  /\ tp = 2

====
